---- MODULE Spec2Model ----
(***************************************************************************)
(* Streambot, desktop/scraping.js: the experiment orchestrator.            *)
(*                                                                         *)
(* The main control flow (the async IIFE and Experiment.run) is one        *)
(* sequential process whose position is pc.  The tshark subprocess of      *)
(* every Run is a separate operating-system process that runs              *)
(* concurrently with it.  Every call into an external collaborator (fs,    *)
(* child_process, puppeteer, puppeteer-har) either returns or raises, the  *)
(* choice being the environment's.                                         *)
(*                                                                         *)
(* Time: Date.now() is the variable now, in milliseconds, counted from the *)
(* moment the current Run began (the code reads the clock only inside a    *)
(* Run, to print it and to take its difference from the Run's origin).     *)
(* It never goes backwards.  It advances by ms when Utils.awaiting(ms)     *)
(* resumes.  In Spec no other statement takes time; in TimedSpec the       *)
(* statements before the Run's first timer do, one millisecond per Tick    *)
(* (after the first timer, the time a statement takes only adds to a       *)
(* timer's and is left out).                                               *)
(***************************************************************************)
EXTENDS Integers, Sequences, FiniteSets, TLC

\* Bounds of the model.
MaxReps == 2        \* config.repetitions ranges over 0..MaxReps
MaxChannels == 2    \* config.channels has at most MaxChannels entries
MaxTicks == 1       \* Tick fires at most MaxTicks times in one behaviour
MaxTimedReps == 1   \* config.repetitions ranges over 0..MaxTimedReps in TimedSpec

VARIABLES
    config,          \* config.json: repetitions, channels, fastAwait, longAwait
    userData,        \* whether the directory user_data exists
    outputDir,       \* whether the output directory exists
    exp,             \* the Experiment object's fastAwait, longAwait, watchAwait
    pc,              \* position of the main control flow
    number,          \* the loop variable of Experiment.run
    chan,            \* index (1-based) of the channel the for-of loop is at
    originTime,      \* const originTime of the current Run
    now,             \* Date.now()
    ticks,           \* how many times Tick fired
    files,           \* the files of the output directory, by path
    tshark,          \* per Run: the tshark subprocess it spawned
    openSessions,    \* how many browser sessions are open
    sniffer,         \* the local variable sniffer: Undefined or a Sniffer object
    browserManager,  \* the local variable browserManager: Undefined or an object
    harLogger,       \* whether the const harLogger is assigned
    started,         \* history: the values of number the loop body was entered with
    status,          \* history: per Run, how far it got
    cleanup,         \* history: the cleanup calls the current Run's catch block made
    stopCalls,       \* history: the Sniffer.stop calls of the current Run
    checks,          \* history: how many times checkCookies was called
    ops,             \* history: the calls the current Run's try block made
    exitCode         \* the process's exit status, -1 while it runs

vars == <<config, userData, outputDir, exp, pc, number, chan, originTime, now,
          ticks, files, tshark, openSessions, sniffer, browserManager, harLogger,
          started, status, cleanup, stopCalls, checks, ops, exitCode>>

Runs == 1..MaxReps

\* -------------------------------------------------------------------------
\* Configuration (config.json)

AllChannels == <<"A", "B", "C", "D">>

ChannelLists == {SubSeq(AllChannels, 1, k) : k \in 0..MaxChannels}

\* (fastAwait, longAwait) in seconds
Timings == {<<1, 2>>}

Configs ==
    {[repetitions |-> r, channels |-> c, fastAwait |-> t[1], longAwait |-> t[2]] :
        r \in 0..MaxReps, c \in ChannelLists, t \in Timings}

\* -------------------------------------------------------------------------
\* Files

\* An event-log path that leaves the repetition index out
LogBotFileShared(n) == <<"bot", 1>>

\* path.join(this.outputDir, `log_net_complete-${number + 1}.pcap`) and so on
LogNetFile(n) == <<"net", n + 1>>
LogBotFile(n) == <<"bot", n + 1>>
LogHarFile(n) == <<"har", n + 1>>

Paths == {"net", "bot", "har"} \X Runs

NoFile == [exists |-> FALSE, content |-> <<>>]

\* fs.writeFileSync(path, line): replaces the content of the file
WriteFileSync(fs, path, line) ==
    [fs EXCEPT ![path] = [exists |-> TRUE, content |-> <<line>>]]

\* fs.appendFileSync(path, line): creates the file when it does not exist
AppendFileSync(fs, path, line) ==
    [fs EXCEPT ![path] = [exists |-> TRUE, content |-> Append(@.content, line)]]

\* fs.unlinkSync(path)
UnlinkSync(fs, path) == [fs EXCEPT ![path] = NoFile]

\* Utils.cleanFiles(...files): forEach file, unlink it if it exists
RECURSIVE CleanFiles(_, _)
CleanFiles(fs, paths) ==
    IF paths = <<>> THEN fs
    ELSE CleanFiles(IF fs[Head(paths)].exists THEN UnlinkSync(fs, Head(paths)) ELSE fs,
                    Tail(paths))

\* `event abs rel\n`
HeaderLine == <<"event", "abs", "rel">>

\* `${name} ${t} ${t - originTime}\n`
EventLineReversed(name, t, origin) == <<name, t, origin - t>>

EventLine(name, t, origin) == <<name, t, t - origin>>

\* `origin ${originTime} ${0}\n`
OriginLine(t) == <<"origin", t, 0>>

\* `${channel.name}-on`, `${channel.name}-off`
ChannelOn(name) == name \o "-on"

ChannelOffAsOn(name) == name \o "-on"

ChannelOff(name) == name \o "-off"

\* -------------------------------------------------------------------------
\* Sniffer (the object) and tshark (the subprocess)

Undefined == [defined |-> FALSE]

\* new Sniffer(outputPath): this.snifferProcess = null
NewSniffer ==
    [defined |-> TRUE,
     spawned |-> FALSE,       \* this.snifferProcess is not null
     killed |-> FALSE,        \* this.snifferProcess.killed
     exitListeners |-> 0,     \* listeners registered for "exit"
     errorListeners |-> 0,    \* listeners registered for "error"
     killCalls |-> 0,         \* calls of this.snifferProcess.kill
     signals |-> 0]           \* signals those calls sent to the subprocess

\* Sniffer.start, for a spawn that returned a ChildProcess
SnifferStart(s) ==
    [s EXCEPT !.spawned = TRUE,
              !.exitListeners = @ + 1,
              !.errorListeners = @ + 1]

\* The subprocess of a Run: os is none, running, exited, or failed (spawn found
\* no binary to execute); signalled: a signal was sent and is not yet acted on;
\* opened: it has created its output file
NoProcess == [os |-> "none", signalled |-> FALSE, opened |-> FALSE]

\* The test of Sniffer.stop
StopGuard(s) == s.spawned /\ ~s.killed

\* ChildProcess.kill(signal): while the subprocess lives the signal is sent and
\* killed becomes true; when it has exited, or never started, ChildProcess has
\* no process handle, nothing is sent and killed stays false
Kill(s, alive) ==
    [s EXCEPT !.killCalls = @ + 1,
              !.killed = IF alive THEN TRUE ELSE @,
              !.signals = IF alive THEN @ + 1 ELSE @]

\* Sniffer.stop(signal = "SIGTERM")
SnifferStop(s, alive) ==
    IF StopGuard(s)
    THEN [Kill(s, alive) EXCEPT !.exitListeners = @ + 1]
    ELSE s

\* -------------------------------------------------------------------------
\* BrowserManager and its session

\* new BrowserManager(): this.browser = null, this.page = null
NewBrowserManager ==
    [defined |-> TRUE,
     browser |-> FALSE,       \* this.browser is not null
     page |-> FALSE,          \* this.page is not null
     session |-> "none",      \* the session of this.browser: none, open, closed
     closeCalls |-> 0]        \* calls of this.browser.close()

\* this.browser = await puppeteer.launch(...)
Launched(b) == [b EXCEPT !.browser = TRUE, !.session = "open"]

\* this.browser.close() returns ("ok") or raises, and a call that raises may
\* ("raiseClosed") or may not ("raiseOpen") have closed the session
CloseOutcomes == {"ok", "raiseClosed", "raiseOpen"}

BrowserClose(b, outcome) ==
    [b EXCEPT !.closeCalls = @ + 1,
              !.session = IF outcome = "raiseOpen" THEN @ ELSE "closed"]

\* A test of the page in the place of the browser
CloseGuardPage(b) == b.page

\* The test of BrowserManager.close
CloseGuard(b) == b.browser

\* The open sessions after b's session changed to what it is in c
Sessions(b, c) ==
    IF b.session = "open" /\ c.session # "open" THEN openSessions - 1
    ELSE IF b.session # "open" /\ c.session = "open" THEN openSessions + 1
    ELSE openSessions

\* -------------------------------------------------------------------------
\* Initial state

Init ==
    /\ config \in Configs
    /\ userData \in BOOLEAN
    /\ outputDir = FALSE
    /\ exp = [fastAwait |-> 0, longAwait |-> 0, watchAwait |-> 0]
    /\ pc = "checkCookies"
    /\ number = 0
    /\ chan = 1
    /\ originTime = 0
    /\ now = 0
    /\ ticks = 0
    /\ files = [p \in Paths |-> NoFile]
    /\ tshark = [n \in Runs |-> NoProcess]
    /\ openSessions = 0
    /\ sniffer = Undefined
    /\ browserManager = Undefined
    /\ harLogger = FALSE
    /\ started = <<>>
    /\ status = [n \in Runs |-> "none"]
    /\ cleanup = <<>>
    /\ stopCalls = <<>>
    /\ checks = 0
    /\ ops = <<>>
    /\ exitCode = -1

\* The Run the loop body is executing
run == number + 1

\* -------------------------------------------------------------------------
\* The main control flow

mainVars == <<config, userData, outputDir, exp, number, chan, originTime>>
objVars == <<tshark, openSessions, sniffer, browserManager, harLogger>>
histVars == <<started, status, cleanup, stopCalls, checks, exitCode>>
timeVars == <<now, ticks>>

\* checkCookies, had it printed its message without process.exit(1)
CheckCookiesWarns ==
    /\ pc = "checkCookies"
    /\ pc' = "construct"
    /\ checks' = checks + 1
    /\ UNCHANGED <<mainVars, objVars, timeVars, files, started, status, cleanup,
                   stopCalls, ops, exitCode>>

\* main: Utils.checkCookies()
CheckCookies ==
    /\ pc = "checkCookies"
    /\ IF userData
       THEN pc' = "construct" /\ exitCode' = exitCode
       ELSE pc' = "exited" /\ exitCode' = 1
    /\ checks' = checks + 1
    /\ UNCHANGED <<mainVars, objVars, timeVars, files, started, status, cleanup,
                   stopCalls, ops>>

\* new Experiment(), had watchAwait been derived from fastAwait
ConstructWatchFromFast ==
    /\ pc = "construct"
    /\ outputDir' = TRUE
    /\ exp' = [fastAwait |-> config.fastAwait * 1000,
               longAwait |-> config.longAwait * 1000,
               watchAwait |-> config.fastAwait * 1000 * 30]
    /\ pc' = "loop"
    /\ UNCHANGED <<config, userData, number, chan, originTime, objVars, timeVars,
                   files, histVars, ops>>

\* main: new Experiment()
Construct ==
    /\ pc = "construct"
    /\ outputDir' = TRUE
    /\ exp' = [fastAwait |-> config.fastAwait * 1000,
               longAwait |-> config.longAwait * 1000,
               watchAwait |-> config.longAwait * 1000 * 30]
    /\ pc' = "loop"
    /\ UNCHANGED <<config, userData, number, chan, originTime, objVars, timeVars,
                   files, histVars, ops>>

\* for (let number = 0; number < repetitions; number++): the test, then the
\* declaration of the body's variables and the three paths; when the loop is
\* over run() resolves and the process ends with status 0
LoopHead ==
    /\ pc = "loop"
    /\ IF number < config.repetitions
       THEN /\ pc' = "header"
            /\ started' = Append(started, number)
            /\ status' = [status EXCEPT ![run] = "running"]
            /\ exitCode' = exitCode
       ELSE /\ pc' = "done"
            /\ exitCode' = 0
            /\ UNCHANGED <<started, status>>
    /\ sniffer' = Undefined
    /\ browserManager' = Undefined
    /\ harLogger' = FALSE
    /\ chan' = 1
    /\ cleanup' = <<>>
    /\ stopCalls' = <<>>
    /\ now' = 0
    /\ originTime' = 0
    /\ ops' = <<>>
    /\ UNCHANGED <<config, userData, outputDir, exp, number, tshark, openSessions,
                   ticks, files, checks>>

\* A statement of the try block raised: control moves to the catch block
Raised == pc' = "catch"

\* The try block made the call op (a timer of ms milliseconds when op is
\* Utils.awaiting), which returned or raised
Did(op, ms) == ops' = Append(ops, [op |-> op, ms |-> ms, raised |-> pc' = "catch"])

\* fs.appendFileSync(logBotFile, line), then on to position next
AppendLog(line, next) ==
    /\ \E ok \in BOOLEAN :
          IF ok
          THEN files' = AppendFileSync(files, LogBotFile(number), line) /\ pc' = next
          ELSE UNCHANGED files /\ Raised
    /\ Did(line[1], 0)

\* const t = Utils.currentUnix();
\* fs.appendFileSync(logBotFile, `${name} ${t} ${t - originTime}\n`)
Record(name, next) == AppendLog(EventLine(name, now, originTime), next)

WriteHeader ==
    /\ pc = "header"
    /\ AppendLog(HeaderLine, "origin")
    /\ UNCHANGED <<mainVars, objVars, timeVars, histVars>>

RecordOrigin ==
    /\ pc = "origin"
    /\ originTime' = now
    /\ AppendLog(OriginLine(now), "snifferStart")
    /\ UNCHANGED <<config, userData, outputDir, exp, number, chan, objVars,
                   timeVars, histVars>>

\* sniffer.start(), had the "error" listener raised into the try block
StartSnifferAborts ==
    /\ pc = "snifferStart"
    /\ \E r \in {"ok", "enoent", "raise"} :
          IF r = "raise"
          THEN sniffer' = NewSniffer /\ UNCHANGED tshark /\ Raised
          ELSE /\ sniffer' = SnifferStart(NewSniffer)
               /\ tshark' = [tshark EXCEPT ![run].os =
                                IF r = "ok" THEN "running" ELSE "failed"]
               /\ IF r = "ok" THEN pc' = "snifferOn" ELSE Raised
    /\ Did("sniffer.start", 0)
    /\ UNCHANGED <<mainVars, openSessions, browserManager, harLogger, timeVars,
                   files, histVars>>

\* sniffer = new Sniffer(logNetFile); sniffer.start()
\* spawn raises, or returns a ChildProcess whose binary runs ("ok") or could
\* not be executed ("enoent")
StartSniffer ==
    /\ pc = "snifferStart"
    /\ \E r \in {"ok", "enoent", "raise"} :
          IF r = "raise"
          THEN sniffer' = NewSniffer /\ UNCHANGED tshark /\ Raised
          ELSE /\ sniffer' = SnifferStart(NewSniffer)
               /\ tshark' = [tshark EXCEPT ![run].os =
                                IF r = "ok" THEN "running" ELSE "failed"]
               /\ pc' = "snifferOn"
    /\ Did("sniffer.start", 0)
    /\ UNCHANGED <<mainVars, openSessions, browserManager, harLogger, timeVars,
                   files, histVars>>

RecordSnifferOn ==
    /\ pc = "snifferOn"
    /\ Record("sniffer-on", "launch")
    /\ UNCHANGED <<mainVars, objVars, timeVars, histVars>>

\* browserManager = new BrowserManager(); await browserManager.launch()
\* puppeteer.launch raises; browser.pages() raises; there is no page, the
\* session is closed and the error raised; or launch returns
Launch ==
    /\ pc = "launch"
    /\ \E r \in {"ok", "launchRaise", "pagesRaise", "noPage"}, o \in CloseOutcomes :
          /\ r # "noPage" => o = "ok"
          /\ browserManager' =
                CASE r = "ok" -> [Launched(NewBrowserManager) EXCEPT !.page = TRUE]
                  [] r = "launchRaise" -> NewBrowserManager
                  [] r = "pagesRaise" -> Launched(NewBrowserManager)
                  [] r = "noPage" -> BrowserClose(Launched(NewBrowserManager), o)
          /\ IF r = "ok" THEN pc' = "browserOn" ELSE Raised
    /\ openSessions' = Sessions(NewBrowserManager, browserManager')
    /\ Did("browserManager.launch", 0)
    /\ UNCHANGED <<mainVars, tshark, sniffer, harLogger, timeVars, files, histVars>>

RecordBrowserOn ==
    /\ pc = "browserOn"
    /\ Record("browser-on", "awaitFast")
    /\ UNCHANGED <<mainVars, objVars, timeVars, histVars>>

\* The value of Date.now() when a timer of ms milliseconds set at t fires
TimerFiresAtOnce(t, ms) == t

TimerFires(t, ms) == t + ms

\* await Utils.awaiting(ms)
Awaiting(ms, next) ==
    /\ now' = TimerFires(now, ms)
    /\ pc' = next
    /\ Did("awaiting", ms)
    /\ UNCHANGED <<config, userData, outputDir, exp, number, originTime, objVars,
                   ticks, files, histVars>>

AwaitFast ==
    /\ pc = "awaitFast"
    /\ Awaiting(exp.fastAwait, "startHar")
    /\ UNCHANGED chan

\* An awaited call that returns (on to next) or raises
External(next) == \E ok \in BOOLEAN : IF ok THEN pc' = next ELSE Raised

\* const harLogger = await browserManager.startHarLogging(logHarFile)
StartHarLogging ==
    /\ pc = "startHar"
    /\ External("gotoHome")
    /\ harLogger' = (pc' = "gotoHome")
    /\ Did("startHarLogging", 0)
    /\ UNCHANGED <<mainVars, tshark, openSessions, sniffer, browserManager,
                   timeVars, files, histVars>>

\* await browserManager.page.goto(config.homepage)
GotoHome ==
    /\ pc = "gotoHome"
    /\ External("awaitLong")
    /\ Did("page.goto", 0)
    /\ UNCHANGED <<mainVars, objVars, timeVars, files, histVars>>

AwaitLong ==
    /\ pc = "awaitLong"
    /\ Awaiting(exp.longAwait, "channel")
    /\ UNCHANGED chan

\* for (const channel of channels): the next channel, if any, and
\* await browserManager.page.goto(channel.link)
GotoChannel ==
    /\ pc = "channel"
    /\ IF chan <= Len(config.channels)
       THEN External("channelOn") /\ Did("page.goto", 0)
       ELSE pc' = "harStop" /\ UNCHANGED ops
    /\ UNCHANGED <<mainVars, objVars, timeVars, files, histVars>>

RecordChannelOn ==
    /\ pc = "channelOn"
    /\ Record(ChannelOn(config.channels[chan]), "awaitWatch")
    /\ UNCHANGED <<mainVars, objVars, timeVars, histVars>>

AwaitWatch ==
    /\ pc = "awaitWatch"
    /\ Awaiting(exp.watchAwait, "channelOff")
    /\ UNCHANGED chan

RecordChannelOff ==
    /\ pc = "channelOff"
    /\ Record(ChannelOff(config.channels[chan]), "channelHome")
    /\ UNCHANGED <<mainVars, objVars, timeVars, histVars>>

\* await browserManager.page.goto(config.homepage), in the channel loop
GotoHomeFromChannel ==
    /\ pc = "channelHome"
    /\ External("channelAwait")
    /\ Did("page.goto", 0)
    /\ UNCHANGED <<mainVars, objVars, timeVars, files, histVars>>

\* await Utils.awaiting(this.fastAwait), then the loop's next channel
AwaitFastInLoop ==
    /\ pc = "channelAwait"
    /\ Awaiting(exp.fastAwait, "channel")
    /\ chan' = chan + 1

\* await harLogger.stop(): writes the traffic log; a call that raises may have
\* written the file already
StopHarLogging ==
    /\ pc = "harStop"
    /\ \E r \in {"ok", "raise", "raiseWritten"} :
          /\ files' = IF r = "raise" THEN files
                      ELSE AppendFileSync(files, LogHarFile(number), "har")
          /\ IF r = "ok" THEN pc' = "close" ELSE Raised
    /\ Did("harLogger.stop", 0)
    /\ UNCHANGED <<mainVars, objVars, timeVars, histVars>>

\* await browserManager.close(), with the position control moves to when the
\* call returns and when it raises
Close(next, raised) ==
    /\ IF CloseGuard(browserManager)
       THEN \E o \in CloseOutcomes :
               /\ browserManager' = BrowserClose(browserManager, o)
               /\ pc' = IF o = "ok" THEN next ELSE raised
       ELSE UNCHANGED browserManager /\ pc' = next
    /\ openSessions' = Sessions(browserManager, browserManager')

CloseBrowser ==
    /\ pc = "close"
    /\ Close("browserOff", "catch")
    /\ Did("browserManager.close", 0)
    /\ UNCHANGED <<mainVars, tshark, sniffer, harLogger, timeVars, files, histVars>>

RecordBrowserOff ==
    /\ pc = "browserOff"
    /\ Record("browser-off", "awaitDrain")
    /\ UNCHANGED <<mainVars, objVars, timeVars, histVars>>

\* The drain wait, had the call of Utils.awaiting not been awaited
AwaitDrainNotAwaited ==
    /\ pc = "awaitDrain"
    /\ pc' = "stop"
    /\ UNCHANGED <<mainVars, objVars, timeVars, files, histVars, ops>>

\* await Utils.awaiting(this.longAwait * 2)
AwaitDrain ==
    /\ pc = "awaitDrain"
    /\ Awaiting(exp.longAwait * 2, "stop")
    /\ UNCHANGED chan

\* The record of one Sniffer.stop call that took the object from s to t: what
\* it found (whether start had set snifferProcess, the subprocess's state) and
\* what it did (calls of kill, listeners registered, whether s changed)
StopCall(s, t, os) ==
    [spawned |-> s.spawned, os |-> os,
     kills |-> t.killCalls - s.killCalls,
     listeners |-> t.exitListeners - s.exitListeners,
     changed |-> t # s]

\* sniffer.stop(); a signal sent reaches the subprocess later
Stop ==
    /\ sniffer' = SnifferStop(sniffer, tshark[run].os = "running")
    /\ tshark' = [tshark EXCEPT ![run].signalled = @ \/ sniffer'.signals > sniffer.signals]
    /\ stopCalls' = Append(stopCalls, StopCall(sniffer, sniffer', tshark[run].os))

StopSniffer ==
    /\ pc = "stop"
    /\ Stop
    /\ pc' = "snifferOff"
    /\ Did("sniffer.stop", 0)
    /\ UNCHANGED <<mainVars, openSessions, browserManager, harLogger, timeVars,
                   files, started, status, cleanup, checks, exitCode>>

\* The last statement of the try block; the for loop's number++ follows
RecordSnifferOff ==
    /\ pc = "snifferOff"
    /\ Record("sniffer-off", "loop")
    /\ IF pc' = "loop"
       THEN number' = number + 1 /\ status' = [status EXCEPT ![run] = "succeeded"]
       ELSE UNCHANGED <<number, status>>
    /\ UNCHANGED <<config, userData, outputDir, exp, chan, originTime, objVars,
                   timeVars, started, cleanup, stopCalls, checks, exitCode>>

\* -------------------------------------------------------------------------
\* The catch block.  An error raised in it is handled nowhere: the promise of
\* experiment.run() rejects and the process ends with a non-zero status.

Rejects ==
    /\ status' = [status EXCEPT ![run] = "rejected"]
    /\ exitCode' = 1

\* console.error(...); if (browserManager) await browserManager.close()
CatchClose ==
    /\ pc = "catch"
    /\ IF browserManager.defined
       THEN /\ Close("catchClean", "exited")
            /\ cleanup' = Append(cleanup, "close")
       ELSE /\ pc' = "catchClean"
            /\ UNCHANGED <<browserManager, openSessions, cleanup>>
    /\ IF pc' = "exited"
       THEN Rejects
       ELSE status' = [status EXCEPT ![run] = "catch"] /\ UNCHANGED exitCode
    /\ UNCHANGED <<mainVars, tshark, sniffer, harLogger, timeVars, files, started,
                   stopCalls, checks, ops>>

ArtifactPaths(n) == <<LogNetFile(n), LogBotFile(n), LogHarFile(n)>>

\* Utils.cleanFiles(logNetFile, logBotFile, logHarFile): every unlink returns
\* (k = 0), or the unlink of the k-th path raises
CatchClean ==
    /\ pc = "catchClean"
    /\ cleanup' = Append(cleanup, "cleanFiles")
    /\ \E k \in 0..3 :
          IF k = 0
          THEN /\ files' = CleanFiles(files, ArtifactPaths(number))
               /\ pc' = "catchStop"
               /\ UNCHANGED <<status, exitCode>>
          ELSE /\ files[ArtifactPaths(number)[k]].exists
               /\ files' = CleanFiles(files, SubSeq(ArtifactPaths(number), 1, k - 1))
               /\ pc' = "exited"
               /\ Rejects
    /\ UNCHANGED <<mainVars, objVars, timeVars, started, stopCalls, checks, ops>>

\* if (sniffer) sniffer.stop(); the catch block ends and number++ follows
CatchStop ==
    /\ pc = "catchStop"
    /\ IF sniffer.defined
       THEN Stop /\ cleanup' = Append(cleanup, "stop")
       ELSE UNCHANGED <<sniffer, tshark, stopCalls, cleanup>>
    /\ status' = [status EXCEPT ![run] = "failed"]
    /\ number' = number + 1
    /\ pc' = "loop"
    /\ UNCHANGED <<config, userData, outputDir, exp, chan, originTime, openSessions,
                   browserManager, harLogger, timeVars, files, started, checks,
                   ops, exitCode>>

\* -------------------------------------------------------------------------
\* The tshark subprocess of Run n, followed for as long as the main process
\* lives, and the clock

Alive == pc \notin {"done", "exited"}

\* tshark creates its output file (-w this.outputPath)
TsharkOpen(n) ==
    /\ Alive
    /\ tshark[n].os = "running"
    /\ ~tshark[n].opened
    /\ tshark' = [tshark EXCEPT ![n].opened = TRUE]
    /\ files' = AppendFileSync(files, <<"net", n>>, "pcap")
    /\ UNCHANGED <<mainVars, pc, openSessions, sniffer, browserManager, harLogger,
                   timeVars, histVars, ops>>

\* The subprocess once it has exited
Exited == [os |-> "exited", signalled |-> FALSE, opened |-> FALSE]

\* The exit of tshark, had the "exit" listener raised into the try block
TsharkExitAborts(n) ==
    /\ Alive
    /\ pc \notin {"checkCookies", "construct", "loop", "catch", "catchClean", "catchStop"}
    /\ tshark[n].os = "running"
    /\ ~tshark[n].signalled
    /\ tshark' = [tshark EXCEPT ![n] = Exited]
    /\ pc' = "catch"
    /\ UNCHANGED <<mainVars, openSessions, sniffer, browserManager, harLogger,
                   timeVars, files, histVars, ops>>

\* tshark exits by itself (an error, a crash)
TsharkExit(n) ==
    /\ Alive
    /\ tshark[n].os = "running"
    /\ ~tshark[n].signalled
    /\ tshark' = [tshark EXCEPT ![n] = Exited]
    /\ UNCHANGED <<mainVars, pc, openSessions, sniffer, browserManager, harLogger,
                   timeVars, files, histVars, ops>>

\* tshark acts on the signal ChildProcess.kill sent and terminates
TsharkTerminate(n) ==
    /\ Alive
    /\ tshark[n].os = "running"
    /\ tshark[n].signalled
    /\ tshark' = [tshark EXCEPT ![n] = Exited]
    /\ UNCHANGED <<mainVars, pc, openSessions, sniffer, browserManager, harLogger,
                   timeVars, files, histVars, ops>>

\* One millisecond passes while the Run is at a statement before its first timer
Tick ==
    /\ pc \in {"header", "origin", "snifferStart", "snifferOn", "launch", "browserOn"}
    /\ ticks < MaxTicks
    /\ now' = now + 1
    /\ ticks' = ticks + 1
    /\ UNCHANGED <<mainVars, pc, objVars, files, histVars, ops>>

Next ==
    \/ CheckCookies
    \/ Construct
    \/ LoopHead
    \/ WriteHeader
    \/ RecordOrigin
    \/ StartSniffer
    \/ RecordSnifferOn
    \/ Launch
    \/ RecordBrowserOn
    \/ AwaitFast
    \/ StartHarLogging
    \/ GotoHome
    \/ AwaitLong
    \/ GotoChannel
    \/ RecordChannelOn
    \/ AwaitWatch
    \/ RecordChannelOff
    \/ GotoHomeFromChannel
    \/ AwaitFastInLoop
    \/ StopHarLogging
    \/ CloseBrowser
    \/ RecordBrowserOff
    \/ AwaitDrain
    \/ StopSniffer
    \/ RecordSnifferOff
    \/ CatchClose
    \/ CatchClean
    \/ CatchStop
    \/ \E n \in Runs : TsharkOpen(n)
    \/ \E n \in Runs : TsharkExit(n)
    \/ \E n \in Runs : TsharkTerminate(n)

Spec == Init /\ [][Next]_vars

\* The same program with statements that take time
TimedInit == Init /\ config.repetitions <= MaxTimedReps

TimedNext == Next \/ Tick

TimedSpec == TimedInit /\ [][TimedNext]_vars

\* -------------------------------------------------------------------------
\* Properties

Range(f) == {f[i] : i \in DOMAIN f}

\* The event log of Run n (1-based) and the artifacts of Run n
EventLog(n) == files[<<"bot", n>>]
Artifacts(n) == {<<"net", n>>, <<"bot", n>>, <<"har", n>>}

\* C1: once the catch block of a failed Run has completed, none of the Run's
\* three artifact paths exists, whatever the capture subprocess does meanwhile.
C1_FailedRunLeavesNoArtifact ==
    \A n \in Runs : status[n] = "failed" => \A p \in Artifacts(n) : ~files[p].exists

\* C2: an error raised by one cleanup action of the catch block is swallowed,
\* and the cleanup actions after it are still executed: the catch block never
\* ends before cleanFiles and, if a Sniffer was created, stop were called.
C2_CleanupIndependentlyGuarded ==
    \A n \in Runs : status[n] = "rejected" =>
        /\ "cleanFiles" \in Range(cleanup)
        /\ sniffer.defined => "stop" \in Range(cleanup)

\* C3: whatever fails, the loop starts every index 0..R-1 once and in order,
\* run() completes normally and the process ends with status 0.
C3_EveryRepetitionRuns ==
    /\ \A i \in DOMAIN started : started[i] = i - 1
    /\ (userData /\ ~Alive) =>
          /\ pc = "done"
          /\ exitCode = 0
          /\ Len(started) = config.repetitions

\* The event names of a successful Run over channels chs, after "browser-on"
RECURSIVE ChannelEvents(_)
ChannelEvents(chs) ==
    IF chs = <<>> THEN <<>>
    ELSE <<Head(chs) \o "-on", Head(chs) \o "-off">> \o ChannelEvents(Tail(chs))

ExpectedEvents(chs) ==
    <<"origin", "sniffer-on", "browser-on">> \o ChannelEvents(chs)
        \o <<"browser-off", "sniffer-off">>

\* C4: the event log of a successful Run is the header, once and first, then
\* the 2N+5 entries origin, sniffer-on, browser-on, each channel's -on and -off
\* in configured order, browser-off, sniffer-off.
C4_SuccessfulRunEventOrder ==
    \A n \in Runs : status[n] = "succeeded" =>
        LET log == EventLog(n).content
            N == Len(config.channels)
        IN /\ EventLog(n).exists
           /\ Len(log) = 2 * N + 6
           /\ log[1] = HeaderLine
           /\ \A i \in 2..Len(log) : log[i][1] # HeaderLine[1]
           /\ [i \in 1..(Len(log) - 1) |-> log[i + 1][1]] = ExpectedEvents(config.channels)

C4_Witness ==
    \E n \in Runs : status[n] = "succeeded" /\ Len(config.channels) >= 2

\* The offsets (third field) of the entries of a log, header left out
Offsets(log) == [i \in 1..(Len(log) - 1) |-> log[i + 1][3]]

\* C5: in the event log of a successful Run the origin entry has offset 0,
\* every other entry's offset is its timestamp minus the origin's timestamp,
\* and the offsets never decrease from origin to sniffer-off.
C5_OffsetsFromOriginNonDecreasing ==
    \A n \in Runs : status[n] = "succeeded" =>
        LET log == EventLog(n).content
        IN /\ log[2][1] = "origin"
           /\ log[2][3] = 0
           /\ \A i \in 3..Len(log) : log[i][3] = log[i][2] - log[2][2]
           /\ \A i \in 2..(Len(log) - 1) : log[i][3] <= log[i + 1][3]

\* A successful Run whose origin was read after the clock had advanced and
\* whose sniffer-on has the origin's timestamp
C5_Witness ==
    \E n \in Runs :
        /\ status[n] = "succeeded"
        /\ EventLog(n).content[2][2] > 0
        /\ EventLog(n).content[3][3] = 0
        /\ Len(config.channels) >= 1

\* Scenario A: one repetition, channels A and B, fast 1 s, long 2 s
ScenarioA ==
    [repetitions |-> 1, channels |-> <<"A", "B">>, fastAwait |-> 1, longAwait |-> 2]

ScenarioAEvents ==
    <<"origin", "sniffer-on", "browser-on", "A-on", "A-off", "B-on", "B-off",
      "browser-off", "sniffer-off">>

ScenarioALog(log) ==
    /\ Len(log) = 10
    /\ log[1] = HeaderLine
    /\ [i \in 1..9 |-> log[i + 1][1]] = ScenarioAEvents
    /\ log[2][3] = 0

\* C6, as stated: in Scenario A the log of the successful Run holds the 9
\* entries and every entry after origin, sniffer-on included, has an offset
\* strictly greater than the entry before it.
C6_OffsetsStrictlyIncreasing ==
    (config = ScenarioA /\ status[1] = "succeeded") =>
        LET log == EventLog(1).content
        IN /\ ScenarioALog(log)
           /\ \A i \in 2..9 : log[i][3] < log[i + 1][3]

\* C6, amended: in Scenario A the log of the successful Run holds the 9
\* entries, origin at offset 0; the offsets of sniffer-on and browser-on are not
\* less than the offset before them (no timer separates them from it), and
\* every entry from A-on on has an offset strictly greater than the entry
\* before it.
C6_OffsetsIncreasingAfterTimers ==
    (config = ScenarioA /\ status[1] = "succeeded") =>
        LET log == EventLog(1).content
        IN /\ ScenarioALog(log)
           /\ log[2][3] <= log[3][3]
           /\ log[3][3] <= log[4][3]
           /\ \A i \in 4..9 : log[i][3] < log[i + 1][3]

\* Scenario A succeeded with sniffer-on at offset 0 and browser-on after it
C6_Witness ==
    /\ config = ScenarioA
    /\ status[1] = "succeeded"
    /\ EventLog(1).content[3][3] = 0
    /\ EventLog(1).content[4][3] > 0

\* C7: a capture subprocess runs only while the Run that spawned it executes:
\* it has terminated once the Run's try block or catch block has completed, so
\* none runs into the next Run; and after a failed Run no session is open.
C7_CaptureEndsWithItsRun ==
    /\ \A n \in Runs :
          tshark[n].os = "running" => n = run /\ status[n] \in {"running", "catch", "rejected"}
    /\ \A n \in Runs : (status[n] = "failed" /\ pc = "loop") => openSessions = 0

\* C8: of two Sniffer.stop calls in succession on a started controller, the
\* second calls kill no more, whether the subprocess was still running or had
\* exited by itself when the first was made.
C8_SecondStopKillsNothing ==
    (/\ Len(stopCalls) >= 2
     /\ stopCalls[1].spawned
     /\ stopCalls[1].os \in {"running", "exited"}) => stopCalls[2].kills = 0

\* C9: Sniffer.stop on a controller never started, or whose subprocess exited
\* by itself before the call, calls kill not at all, registers no listener and
\* changes nothing.
C9_StopOnStoppedIsNoOp ==
    \A i \in DOMAIN stopCalls :
        (~stopCalls[i].spawned \/ stopCalls[i].os = "exited") =>
            /\ stopCalls[i].kills = 0
            /\ stopCalls[i].listeners = 0
            /\ ~stopCalls[i].changed

\* C10: BrowserManager.close is idempotent: the session of one BrowserManager
\* is closed at most once, however often the Run calls close.
C10_SessionClosedOnce ==
    browserManager.defined => browserManager.closeCalls <= 1

\* C11: a failure of the capture subprocess leaves the main control flow where
\* it is: the step in which tshark fails to start goes on to the sniffer-on
\* record, and the step in which tshark exits moves the main flow nowhere and
\* changes none of its variables, the session and the Run's status included.
C11_CaptureFailureLeavesFlow ==
    [][\A n \in Runs :
          /\ (tshark[n].os = "none" /\ tshark'[n].os = "failed") =>
                 pc = "snifferStart" /\ pc' = "snifferOn" /\ status' = status
          /\ (tshark[n].os = "running" /\ tshark'[n].os = "exited") =>
                 /\ pc' = pc
                 /\ UNCHANGED <<mainVars, sniffer, browserManager, openSessions,
                                harLogger, status, ops, exitCode>>]_vars

\* A Run succeeded although its tshark had exited by itself before stop
C11_Witness ==
    \E n \in Runs :
        /\ n = number
        /\ pc = "loop"
        /\ status[n] = "succeeded"
        /\ Len(stopCalls) = 1
        /\ stopCalls[1].os = "exited"

\* The event names of a log, header included
Names(log) == {log[i][1] : i \in DOMAIN log}

\* C12, as stated: a Run whose capture binary is missing never ends as a
\* successful Run.
C12_MissingBinaryAbortsRun ==
    \A n \in Runs : tshark[n].os = "failed" => status[n] # "succeeded"

\* C12, amended: a missing capture binary aborts nothing.  The step in which
\* tshark fails to start goes on to the sniffer-on record; the Run has no
\* capture file; and when no other step fails it ends as a successful Run
\* whose event log persists with sniffer-on and sniffer-off.
C12_MissingBinaryRunGoesOn ==
    /\ [](\A n \in Runs : tshark[n].os = "failed" =>
              /\ ~files[<<"net", n>>].exists
              /\ status[n] = "succeeded" =>
                    /\ EventLog(n).exists
                    /\ {"sniffer-on", "sniffer-off"} \subseteq Names(EventLog(n).content))
    /\ [][\A n \in Runs : (tshark[n].os = "none" /\ tshark'[n].os = "failed") =>
                               pc' = "snifferOn"]_vars

\* A Run whose capture binary was missing has succeeded
C12_Witness ==
    \E n \in Runs : tshark[n].os = "failed" /\ status[n] = "succeeded"

\* C13: checkCookies is called once, before everything else; when user_data
\* is absent the process ends there with status 1, with no output directory,
\* no Run started, no Sniffer, no subprocess and no session; and whatever
\* else exists, exists after a check that passed.
C13_PreflightOnceBeforeLoop ==
    /\ checks = IF pc = "checkCookies" THEN 0 ELSE 1
    /\ ~userData =>
          /\ pc \in {"checkCookies", "exited"}
          /\ pc = "exited" => exitCode = 1
          /\ ~outputDir
          /\ started = <<>>
          /\ sniffer = Undefined /\ browserManager = Undefined
          /\ \A n \in Runs : tshark[n] = NoProcess
          /\ openSessions = 0
          /\ \A p \in Paths : ~files[p].exists
    /\ (outputDir \/ started # <<>>) => userData /\ checks = 1

\* The process has ended at the check
C13_Witness ==
    ~userData /\ pc = "exited" /\ exitCode = 1 /\ checks = 1

\* The positions of the calls of op among the calls of the current Run, and
\* the last call
Idx(op) == {i \in DOMAIN ops : ops[i].op = op}
LastOp == ops[Len(ops)]

\* The Run that has just ended is n, and it ended as st
JustEnded(n, st) == n = number /\ pc = "loop" /\ status[n] = st

\* The current Run's try block was left by a page.goto of the channel loop
\* (one that follows the first navigation to the homepage)
NavigationFailedInLoop ==
    /\ ops # <<>>
    /\ LastOp.op = "page.goto"
    /\ LastOp.raised
    /\ Idx("page.goto") # {Len(ops)}

\* C14: a navigation that fails in the channel loop is not retried (no call
\* of the try block follows the one that raised); the handler calls close,
\* cleanFiles and stop in this order and the Run's event log and traffic log
\* are gone; and the Run only is aborted: the process does not end in it, it
\* goes on to the next index.
C14_NavigationFailureAbortsOnlyRun ==
    /\ \A i \in DOMAIN ops : ops[i].raised => i = Len(ops)
    /\ \A n \in Runs : (JustEnded(n, "failed") /\ NavigationFailedInLoop) =>
          /\ cleanup = <<"close", "cleanFiles", "stop">>
          /\ ~files[<<"bot", n>>].exists
          /\ ~files[<<"har", n>>].exists
    /\ NavigationFailedInLoop => pc # "exited"

\* C15: in a successful Run sniffer.start, launch, startHarLogging,
\* harLogger.stop, close and sniffer.stop are each called once and none
\* raised; start precedes launch, launch precedes startHarLogging, which
\* precedes every navigation; every navigation precedes harLogger.stop, which
\* precedes close, which precedes the browser-off record; a wait lies between
\* that record and sniffer.stop; and the sniffer-off record follows stop.
C15_LifecyclesNested ==
    \A n \in Runs : JustEnded(n, "succeeded") =>
        /\ \A i \in DOMAIN ops : ~ops[i].raised
        /\ \A o \in {"sniffer.start", "browserManager.launch", "startHarLogging",
                      "harLogger.stop", "browserManager.close", "browser-off",
                      "sniffer.stop", "sniffer-off"} : Cardinality(Idx(o)) = 1
        /\ \A a \in Idx("sniffer.start"), b \in Idx("browserManager.launch"),
              c \in Idx("startHarLogging"), d \in Idx("harLogger.stop"),
              e \in Idx("browserManager.close"), f \in Idx("browser-off"),
              g \in Idx("sniffer.stop"), h \in Idx("sniffer-off") :
                /\ a < b /\ b < c
                /\ Idx("page.goto") # {}
                /\ \A i \in Idx("page.goto") : c < i /\ i < d
                /\ d < e /\ e < f
                /\ \E w \in Idx("awaiting") : f < w /\ w < g
                /\ g < h

\* A Run over at least one channel has just ended successfully
C15_Witness ==
    \E n \in Runs : JustEnded(n, "succeeded") /\ Len(config.channels) >= 1

\* C16: a step changes the event log of Run n only by appending one line to
\* it, while Run n is in its try block, or by deleting the file in the
\* cleanFiles call of Run n's catch block; the event log of a Run that has
\* succeeded is changed by no step.
C16_EventLogAppendOnly ==
    [][\A n \in Runs :
          LET old == files[<<"bot", n>>]
              new == files'[<<"bot", n>>]
          IN /\ new # old =>
                   /\ n = run
                   /\ \/ /\ status[n] = "running"
                         /\ new.exists
                         /\ Len(new.content) = Len(old.content) + 1
                         /\ SubSeq(new.content, 1, Len(old.content)) = old.content
                      \/ /\ pc = "catchClean"
                         /\ old.exists
                         /\ new = NoFile
             /\ status[n] = "succeeded" => new = old]_vars

\* A later Run is in its try block and the log of an earlier, successful Run
\* holds all its entries
C16_Witness ==
    \E n \in Runs :
        /\ status[n] = "succeeded"
        /\ n < run
        /\ pc = "snifferOn"
        /\ Len(EventLog(n).content) = 2 * Len(config.channels) + 6

\* The calls of a successful Run over channels chs with their waits
RECURSIVE ChannelOps(_, _, _)
ChannelOps(chs, F, L) ==
    IF chs = <<>> THEN <<>>
    ELSE <<<<"page.goto", 0>>, <<Head(chs) \o "-on", 0>>,
           <<"awaiting", 30 * 1000 * L>>, <<Head(chs) \o "-off", 0>>,
           <<"page.goto", 0>>, <<"awaiting", 1000 * F>>>>
         \o ChannelOps(Tail(chs), F, L)

ExpectedOps(chs, F, L) ==
    <<<<HeaderLine[1], 0>>, <<"origin", 0>>, <<"sniffer.start", 0>>,
      <<"sniffer-on", 0>>, <<"browserManager.launch", 0>>, <<"browser-on", 0>>,
      <<"awaiting", 1000 * F>>, <<"startHarLogging", 0>>, <<"page.goto", 0>>,
      <<"awaiting", 1000 * L>>>>
    \o ChannelOps(chs, F, L)
    \o <<<<"harLogger.stop", 0>>, <<"browserManager.close", 0>>,
         <<"browser-off", 0>>, <<"awaiting", 2 * 1000 * L>>,
         <<"sniffer.stop", 0>>, <<"sniffer-off", 0>>>>

\* C17: the calls of a successful Run, with the milliseconds of its waits, are
\* 1000F after launch and browser-on, 1000L after the first navigation, for
\* each channel 30*1000L between its -on and -off and 1000F after the return
\* to the homepage, and 2*1000L between browser-off and sniffer.stop.
C17_WaitsOfSuccessfulRun ==
    \A n \in Runs : JustEnded(n, "succeeded") =>
        [i \in DOMAIN ops |-> <<ops[i].op, ops[i].ms>>]
            = ExpectedOps(config.channels, config.fastAwait, config.longAwait)

\* A Run over the most channels has just ended successfully
C17_Witness ==
    \E n \in Runs :
        /\ JustEnded(n, "succeeded")
        /\ Len(config.channels) = MaxChannels
        /\ Cardinality(Idx("awaiting")) = 2 * MaxChannels + 3

\* C18: the paths of different indices differ, and a step changes a file of
\* a Run other than the current one only when that Run's own tshark creates
\* its capture file: what the current Run calls, its cleanFiles included,
\* changes the current Run's three paths only.
C18_OtherRunsArtifactsUntouched ==
    /\ [](\A n, m \in 0..(MaxReps - 1) :
             /\ Cardinality(Range(ArtifactPaths(n))) = 3
             /\ n # m => Range(ArtifactPaths(n)) \cap Range(ArtifactPaths(m)) = {})
    /\ [][\A p \in Paths : files'[p] # files[p] =>
              \/ p \in Range(ArtifactPaths(number))
              \/ /\ p[1] = "net"
                 /\ ~tshark[p[2]].opened
                 /\ tshark'[p[2]].opened
                 /\ pc' = pc]_vars

\* A Run has failed after an earlier Run succeeded, whose event log exists
C18_Witness ==
    \E n, m \in Runs :
        /\ n < m
        /\ status[n] = "succeeded"
        /\ status[m] = "failed"
        /\ EventLog(n).exists

\* C19: at most one session is open, and none is open when the loop starts a
\* Run or the Run calls launch.
C19_OneSessionAtATime ==
    /\ openSessions <= 1
    /\ pc \in {"loop", "header", "origin", "snifferStart", "snifferOn", "launch"} =>
          openSessions = 0

\* The session of a Run that follows a failed Run is open
C19_Witness ==
    \E n \in Runs :
        /\ n < run
        /\ status[n] = "failed"
        /\ openSessions = 1
        /\ browserManager.defined
        /\ browserManager.session = "open"

====
